---- MODULE Spec2Model ----
(***************************************************************************)
(* Batch research aggregator of the AI Newsletter MCP server (main.py):    *)
(* the rate_limit and safe_api_call decorators, the four source adapters   *)
(* they wrap, and fetch_all_research, which calls the adapters in turn.    *)
(*                                                                         *)
(* Time is counted in whole seconds.  For each limiter the model keeps     *)
(* elapsed[s] = time.time() - last_called[0] (main.py:60), the only form   *)
(* in which the code ever reads last_called, saturated at the limiter's    *)
(* spacing 60/calls_per_minute: above it the code's wait_time is <= 0      *)
(* whatever the exact value.  The wall clock is taken to be monotonic.     *)
(***************************************************************************)
EXTENDS Integers, Sequences, FiniteSets, TLC

\* ---------------------------------------------------------------- bounds
\* Largest number of items a provider response holds.
MaxItems == 2

\* ---------------------------------------------------------------- sources
\* Keys of research_data, in the order fetch_all_research attempts them.
Order == <<"papers", "repositories", "products", "tweets">>

Sources == {Order[i] : i \in 1..Len(Order)}

\* Prefix fetch_all_research gives the error entry of a source.
Label(s) ==
    CASE s = "papers" -> "Papers"
      [] s = "repositories" -> "Repos"
      [] s = "products" -> "Products"
      [] s = "tweets" -> "Tweets"

\* calls_per_minute given to @rate_limit on each adapter.
CallsPerMinute(s) ==
    CASE s = "papers" -> 30
      [] s = "repositories" -> 30
      [] s = "products" -> 20
      [] s = "tweets" -> 15

\* 60.0 / calls_per_minute: the spacing the limiter of s enforces.
Interval(s) == 60 \div CallsPerMinute(s)

Min(a, b) == IF a < b THEN a ELSE b

VARIABLES
    GOOGLE_CLIENT_ID,       \* Config.GOOGLE_CLIENT_ID is set (not None, not "")
    GOOGLE_CLIENT_SECRET,   \* Config.GOOGLE_CLIENT_SECRET is set
    GOOGLE_REFRESH_TOKEN,   \* Config.GOOGLE_REFRESH_TOKEN is set
    NEWSLETTER_FOLDER_ID,   \* Config.NEWSLETTER_FOLDER_ID is set
    GITHUB_TOKEN,           \* Config.GITHUB_TOKEN is set
    main_pc,                \* position of the __main__ block
    valid,                  \* <<>> or <<what validate_config returned>>
    log,                    \* the records logged by __main__ and validate_config
    PRODUCT_HUNT_API_KEY,   \* Config.PRODUCT_HUNT_API_KEY is set
    TWITTER_BEARER_TOKEN,   \* Config.TWITTER_BEARER_TOKEN is set
    elapsed,                \* per limiter: time.time() - last_called[0], saturated
    agg_pc,                 \* position of fetch_all_research
    config,                 \* its local config (after the None default)
    results,                \* its local results dict
    errors,                 \* its local errors list
    ret,                    \* <<>> or <<the value fetch_all_research returned>>
    ad_pc,                  \* position of the adapter call in progress
    ad_src,                 \* the adapter being called
    ad_caller,              \* "agg" or "client"
    ad_args,                \* the arguments of the adapter call
    wait_time,              \* the limiter wrapper's local wait_time
    ad_ret,                 \* <<>> or <<the value the last direct adapter call returned>>
    attempted,              \* per source: call expressions evaluated in this batch
    failed,                 \* sources whose call in this batch raised or returned a non-success result
    net_calls,              \* transport requests issued by the adapter call in progress
    raised,                 \* exception class the wrapped function of the last adapter call raised, or "none"
    admit,                  \* the last admission: limiter, gap since the one before
    probe,                  \* <<>> or <<an adapter body's inputs, its request and its outcome>>
    calling,                \* the adapter the concurrent callers call
    callers,                \* per concurrent caller: its position in the limiter wrapper and its locals
    used,                   \* last_called[0] of that adapter's limiter was written
    spacing,                \* the last admission of a concurrent caller: times since the admission before
    answers,                \* per source: what its provider answers in the batch run as one task per source
    tasks                   \* per source: position of its task in that batch

\* The variables the batch and limiter actions leave alone.
startup == <<GOOGLE_CLIENT_ID, GOOGLE_CLIENT_SECRET, GOOGLE_REFRESH_TOKEN,
             NEWSLETTER_FOLDER_ID, GITHUB_TOKEN, main_pc, valid, log>>

contention == <<calling, callers, used, spacing>>

gather == <<answers, tasks>>

others == <<probe, startup, contention, gather>>

\* The variables of the serving process: configuration, limiters, the batch
\* and the adapter call in progress.
server == <<PRODUCT_HUNT_API_KEY, TWITTER_BEARER_TOKEN, elapsed, agg_pc, config,
            results, errors, ret, ad_pc, ad_src, ad_caller, ad_args, wait_time,
            ad_ret, attempted, failed, net_calls, raised, admit>>

vars == <<server, others>>

\* ---------------------------------------------------------------- exceptions
\* Exception classes the model distinguishes: requests.Timeout and
\* requests.HTTPError (both requests.RequestException), KeyError (a payload
\* without an expected field) and TypeError.
ExcClasses == {"Timeout", "HTTPError", "KeyError", "TypeError"}

\* The base class of a class, up to Exception.
Parent(c) ==
    CASE c = "Timeout" -> "RequestException"
      [] c = "HTTPError" -> "RequestException"
      [] c = "RequestException" -> "Exception"
      [] OTHER -> "Exception"

\* Python's test of an except clause: c is k or a subclass of k.
IsInstance(c, k) == c = k \/ Parent(c) = k \/ Parent(Parent(c)) = k

\* ---------------------------------------------------------------- results
\* An adapter's return value: status, message (error results), count and items
\* (success results).  A message is <<fixed text, str(e) or "">>.
NoMessage == <<"", "">>

Success(count, items) ==
    [status |-> "success", message |-> NoMessage, count |-> count, items |-> items]

Error(text, detail) ==
    [status |-> "error", message |-> <<text, detail>>, count |-> 0, items |-> <<>>]

\* One entry of a provider response: its age in hours (now, in UTC, minus
\* its published / created timestamp) and its engagement counts.  The
\* adapters copy these fields into the item they build, so an item is
\* modelled by the entry it was built from.
Entry(age, likes, retweets) == [age |-> age, likes |-> likes, retweets |-> retweets]

\* An entry published just now, with 100 likes.
FreshEntry == Entry(0, 100, 0)

\* The responses of the batch model: up to MaxItems fresh entries.
FreshPayloads == {[i \in 1..n |-> FreshEntry] : n \in 0..MaxItems}

\* The first k elements of a sequence (Python's seq[:k]).
Take(seq, k) == SubSeq(seq, 1, Min(Len(seq), k))

\* The wrong order of the except clauses of safe_api_call: the general
\* RequestException clause first, so that it also takes requests.Timeout.
SafeApiCallRequestFirst(exc) ==
    IF IsInstance(exc, "RequestException") THEN Error("Request failed", exc)
    ELSE IF IsInstance(exc, "Timeout") THEN Error("Request timeout", "")
    ELSE Error("Unexpected error", exc)

\* The except clauses of safe_api_call, tried in order, for an exception of
\* class exc raised by the wrapped function.
SafeApiCall(exc) ==
    IF IsInstance(exc, "Timeout") THEN Error("Request timeout", "")
    ELSE IF IsInstance(exc, "RequestException") THEN Error("Request failed", exc)
    ELSE Error("Unexpected error", exc)

\* ---------------------------------------------------------------- adapters
\* What the provider does with a request: a response ("ok": the entries it
\* holds, in provider order), no answer within the timeout, a non-2xx
\* status, or a payload that lacks a field the mapping reads.  tz is the
\* host's UTC offset in hours (local time minus UTC).
Failures == [kind : {"timeout", "http_error", "malformed"}, payload : {<<>>}, tz : {0}]

Events == [kind : {"ok"}, payload : FreshPayloads, tz : {0}] \cup Failures

\* The credential an adapter checks first is configured (adapters without
\* one have nothing to check).
HasCredential(s) ==
    CASE s = "products" -> PRODUCT_HUNT_API_KEY
      [] s = "tweets" -> TWITTER_BEARER_TOKEN
      [] OTHER -> TRUE

MissingCredential(s) ==
    IF s = "products"
    THEN Error("Product Hunt API key not configured. Set PRODUCT_HUNT_API_KEY environment variable.", "")
    ELSE Error("Twitter API token not configured. Set TWITTER_BEARER_TOKEN environment variable.", "")

\* The exception the transport call (timeout=15), raise_for_status or the
\* mapping raises on a provider event.  search_arxiv_papers reaches its
\* provider through the arxiv client: there an event stands for the client
\* raising an exception of that class.
RaisedOn(ev) ==
    CASE ev.kind = "timeout" -> "Timeout"
      [] ev.kind = "http_error" -> "HTTPError"
      [] ev.kind = "malformed" -> "KeyError"
      [] OTHER -> "none"

\* Hours in timedelta(days=1).
HoursPerDay == 24

\* The largest number of entries the request of adapter s asks the provider
\* for: max_results * 2 (papers), per_page 10 (repositories), first: limit
\* (products), max_results 100 (tweets).
PageSize(s, args) ==
    CASE s = "papers" -> args.limit * 2
      [] s = "repositories" -> 10
      [] s = "products" -> args.limit
      [] s = "tweets" -> 100

\* The entries the mapping of adapter s iterates over: the provider serves
\* no more than the request asked for.
Served(s, args, payload) == Take(payload, PageSize(s, args))

\* result.published.replace(tzinfo=None) >= datetime.now() - timedelta(days_back):
\* the UTC timestamp, its zone dropped, against the host's local clock.
PublishedInWindow(e, days_back, tz) == e.age + tz <= HoursPerDay * days_back

\* The loop of search_arxiv_papers from candidate i on, papers so far acc:
\* a candidate inside the window is appended, and the loop ends once
\* max_results papers are held.
RECURSIVE PapersLoop(_, _, _, _, _)
PapersLoop(cands, i, acc, args, tz) ==
    IF i > Len(cands) THEN acc
    ELSE IF PublishedInWindow(cands[i], args.days_back, tz)
    THEN LET acc2 == Append(acc, cands[i])
         IN  IF Len(acc2) >= args.limit THEN acc2
             ELSE PapersLoop(cands, i + 1, acc2, args, tz)
    ELSE PapersLoop(cands, i + 1, acc, args, tz)

\* The filter with a strict comparison: like_count > min_likes.
PassesLikesStrict(e, min_likes) == e.likes > min_likes

\* metrics.get("like_count", 0) >= min_likes
PassesLikes(e, min_likes) == e.likes >= min_likes

\* Python's [x for x in seq if keep(x)].
RECURSIVE SelectLikes(_, _)
SelectLikes(seq, min_likes) ==
    IF seq = <<>> THEN <<>>
    ELSE IF PassesLikes(Head(seq), min_likes)
    THEN <<Head(seq)>> \o SelectLikes(Tail(seq), min_likes)
    ELSE SelectLikes(Tail(seq), min_likes)

\* The sort key of fetch_twitter_trends: likes + retweets * 2.
Engagement(e) == e.likes + e.retweets * 2

\* x put into a list sorted by Engagement, descending, behind every element
\* that is not smaller (list.sort(reverse=True) is stable).
RECURSIVE InsertDesc(_, _)
InsertDesc(sorted, x) ==
    IF sorted = <<>> THEN <<x>>
    ELSE IF Engagement(Head(sorted)) >= Engagement(x)
    THEN <<Head(sorted)>> \o InsertDesc(Tail(sorted), x)
    ELSE <<x>> \o sorted

\* tweets.sort(key=likes + retweets * 2, reverse=True)
RECURSIVE SortDesc(_)
SortDesc(seq) ==
    IF seq = <<>> THEN <<>>
    ELSE InsertDesc(SortDesc(SubSeq(seq, 1, Len(seq) - 1)), seq[Len(seq)])

\* The success result adapter s builds from the provider's response.
\* search_arxiv_papers filters by date and stops at max_results;
\* fetch_github_trending and search_product_hunt map every entry served;
\* fetch_twitter_trends filters by likes, sorts, counts every tweet kept and
\* returns the first 10.
Mapped(s, args, ev) ==
    LET served == Served(s, args, ev.payload)
    IN  CASE s = "papers" ->
               LET papers == PapersLoop(served, 1, <<>>, args, ev.tz)
               IN  Success(Len(papers), papers)
          [] s = "repositories" -> Success(Len(served), served)
          [] s = "products" -> Success(Len(served), served)
          [] s = "tweets" ->
               LET tweets == SortDesc(SelectLikes(served, args.min_likes))
               IN  Success(Len(tweets), Take(tweets, 10))

\* The credential check skipped: the adapter goes to the provider at once.
FuncNoCredentialCheck(s, args, ev) ==
    IF ev.kind = "ok"
    THEN [raises |-> "none", value |-> Mapped(s, args, ev), net |-> 1]
    ELSE [raises |-> RaisedOn(ev), value |-> Error("", ""), net |-> 1]

\* The body of adapter s (the function under both decorators) on provider
\* event ev: the exception it raises or the value it returns, and the number
\* of transport requests it issued.
Func(s, args, ev) ==
    IF ~HasCredential(s)
    THEN [raises |-> "none", value |-> MissingCredential(s), net |-> 0]
    ELSE IF ev.kind = "ok"
    THEN [raises |-> "none", value |-> Mapped(s, args, ev), net |-> 1]
    ELSE [raises |-> RaisedOn(ev), value |-> Error("", ""), net |-> 1]

\* The decorated adapter as its caller sees it: the body's value, or the
\* error result safe_api_call makes of the exception the body raised.
Wrapped(out) ==
    IF out.raises = "none"
    THEN out
    ELSE [out EXCEPT !.raises = "none", !.value = SafeApiCall(out.raises)]

\* ---------------------------------------------------------------- startup
\* The folder id counted as required.
RequiredWithFolder ==
    <<"GOOGLE_CLIENT_ID", "GOOGLE_CLIENT_SECRET", "GOOGLE_REFRESH_TOKEN",
      "NEWSLETTER_FOLDER_ID">>

\* The keys of the dicts of validate_config, in their order.
Required == <<"GOOGLE_CLIENT_ID", "GOOGLE_CLIENT_SECRET", "GOOGLE_REFRESH_TOKEN">>

Optional == <<"NEWSLETTER_FOLDER_ID", "GITHUB_TOKEN", "PRODUCT_HUNT_API_KEY",
              "TWITTER_BEARER_TOKEN">>

\* The value of a Config attribute counts as true.
ConfigValue(key) ==
    CASE key = "GOOGLE_CLIENT_ID" -> GOOGLE_CLIENT_ID
      [] key = "GOOGLE_CLIENT_SECRET" -> GOOGLE_CLIENT_SECRET
      [] key = "GOOGLE_REFRESH_TOKEN" -> GOOGLE_REFRESH_TOKEN
      [] key = "NEWSLETTER_FOLDER_ID" -> NEWSLETTER_FOLDER_ID
      [] key = "GITHUB_TOKEN" -> GITHUB_TOKEN
      [] key = "PRODUCT_HUNT_API_KEY" -> PRODUCT_HUNT_API_KEY
      [] key = "TWITTER_BEARER_TOKEN" -> TWITTER_BEARER_TOKEN

\* [key for key, value in d.items() if not value]
Missing(keys) == SelectSeq(keys, LAMBDA k : ~ConfigValue(k))

\* One log record: its level, its text and the keys it names.
Line(level, text, keys) == [level |-> level, text |-> text, keys |-> keys]

\* validate_config: what it logs and what it returns.
ValidateConfig ==
    LET missing_required == Missing(Required)
        missing_optional == Missing(Optional)
    IN  IF missing_required # <<>>
        THEN [logged |-> <<Line("error", "Missing REQUIRED configuration", missing_required),
                           Line("error", "Google OAuth credentials are required", <<>>)>>,
              result |-> FALSE]
        ELSE [logged |-> (IF missing_optional # <<>>
                          THEN <<Line("warning", "Missing optional configuration",
                                      missing_optional),
                                 Line("warning", "Some features may be limited", <<>>)>>
                          ELSE <<>>)
                         \o <<Line("info", "Configuration validation complete", <<>>)>>,
              result |-> TRUE]

\* What __main__ logs first, after validate_config returned, and last.
StartLines == <<Line("info", "Starting AI Newsletter MCP Server...", <<>>)>>

ReportLines(ok) ==
    IF ~ok
    THEN <<Line("error", "Configuration validation failed", <<>>),
           Line("error", "Required", Required)>>
    ELSE <<Line("info", "All required configuration present", <<>>)>>

ReadyLines == <<Line("info", "Server ready to accept connections", <<>>)>>

\* ---------------------------------------------------------------- rate_limit
\* The subtraction the wrong way round: elapsed - 60.0 / calls_per_minute.
WaitTimeReversed(s, el) == el - Interval(s)

\* wait_time of the limiter of s: 60.0 / calls_per_minute - elapsed.
WaitTime(s, el) == Interval(s) - el

\* The state of the limiters d seconds later.
Later(el, d) == [s \in Sources |-> Min(el[s] + d, Interval(s))]

\* One last_called cell shared by every decorated function: an admission
\* restarts every limiter.
AdmittedShared(el, s) == [t \in Sources |-> 0]

\* The state of the limiters after last_called[0] = time.time() in the
\* limiter of s.
Admitted(el, s) == [el EXCEPT ![s] = 0]

\* Number of callers that may be inside one limiter wrapper at a time.
NThreads == 2

Threads == 1..NThreads

\* A caller outside the wrapper.  Inside it: seen is the elapsed it read,
\* since_seen the time since the last_called value it read (saturated),
\* remaining the rest of its sleep, first whether last_called was still 0.0.
IdleCaller ==
    [pc |-> "idle", seen |-> 0, wait_time |-> 0, slept |-> FALSE, remaining |-> 0,
     since_seen |-> 0, first |-> FALSE]

\* Before any admission: as far from a last call as the limiter measures.
FirstSpacing(s) == [gap |-> Interval(s), since_seen |-> Interval(s)]

\* The test of the wrapper taken as wait_time >= 0.
ShouldSleepOnZero(w) == w >= 0

\* if wait_time > 0:
ShouldSleep(w) == w > 0

\* A sleep that returns one second early.
SleepForOneLess(w) == w - 1

\* time.sleep(wait_time) suspends the caller for at least wait_time seconds.
SleepFor(w) == w

\* ---------------------------------------------------------------- fetch_all_research
ConfigKeys == {"days_back", "max_papers", "max_repos", "max_products"}

\* The dicts a caller passes as config: every key, small values.
ConfigDicts == [ConfigKeys -> {1}]

\* The config argument: None or a dict.
ConfigArgs ==
    {[is_none |-> TRUE, dict |-> [k \in {} |-> 1]]}
        \cup {[is_none |-> FALSE, dict |-> d] : d \in ConfigDicts}

\* The dict config is bound to when the argument is None.
DefaultConfig ==
    [k \in ConfigKeys |-> IF k = "days_back" THEN 7 ELSE 10]

\* dict.get(key, default)
Get(d, key, default) == IF key \in DOMAIN d THEN d[key] ELSE default

\* The arguments an adapter takes when called with its defaults.
DefaultArgs ==
    [limit |-> 10, days_back |-> 7, timeframe |-> "weekly", min_likes |-> 100]

\* The arguments fetch_all_research passes to the adapter of s.
AggArgs(s, cfg) ==
    CASE s = "papers" ->
            [DefaultArgs EXCEPT !.limit = Get(cfg, "max_papers", 10),
                                !.days_back = Get(cfg, "days_back", 7)]
      [] s = "repositories" -> DefaultArgs
      [] s = "products" ->
            [DefaultArgs EXCEPT !.limit = Get(cfg, "max_products", 10),
                                !.days_back = Get(cfg, "days_back", 7)]
      [] s = "tweets" ->
            [DefaultArgs EXCEPT !.days_back = Get(cfg, "days_back", 7)]

\* The block after the block of s, or "return" after the last one.
NextBlock(s) ==
    LET i == CHOOSE j \in 1..Len(Order) : Order[j] = s
    IN  IF i < Len(Order) THEN Order[i + 1] ELSE "return"

\* Every source attempted, whatever is configured.
AttemptsAll(s) == TRUE

\* fetch_all_research attempts source s: papers and repositories always,
\* products and tweets when their credential is configured.
Attempts(s) ==
    CASE s = "products" -> PRODUCT_HUNT_API_KEY
      [] s = "tweets" -> TWITTER_BEARER_TOKEN
      [] OTHER -> TRUE

\* A failure ends the batch: nothing after the failed source is attempted.
AfterBlockAbort(s, ok) == IF ok THEN NextBlock(s) ELSE "return"

\* A failed source is attempted again.
AfterBlockRetry(s, ok) == IF ok THEN NextBlock(s) ELSE s

\* Where fetch_all_research continues after the try/except block of s, ok
\* telling whether the block recorded a success.
AfterBlock(s, ok) == NextBlock(s)

\* An except clause that takes request errors only.
BlockCatchesRequestOnly(exc) == IsInstance(exc, "RequestException")

\* The except clause of each block, "except Exception", takes exc.
BlockCatches(exc) == IsInstance(exc, "Exception")

\* What the caller of fetch_all_research receives when an exception leaves
\* its body: the dict its safe_api_call makes of it.
Escaped(exc) ==
    [status |-> SafeApiCall(exc).status, message |-> SafeApiCall(exc).message]

\* The entry errors.append adds for a non-success result of s.
ErrorEntry(s, message) == [source |-> Label(s), message |-> message]

\* The entry the except clause of the block adds: str(e) of the exception.
ExceptEntry(s, exc) == [source |-> Label(s), message |-> <<"", exc>>]

\* A result counts as success only when all four sources were fetched.
StatusOfAllSources(res, errs) ==
    IF errs = <<>> /\ DOMAIN res = Sources THEN "success" ELSE "partial"

\* A result counts as success as soon as one source was fetched.
StatusOfAnyFetched(res, errs) ==
    IF DOMAIN res # {} THEN "success" ELSE "partial"

\* "success" if not errors else "partial"
StatusOf(res, errs) == IF errs = <<>> THEN "success" ELSE "partial"

\* sources_fetched counting every block that ran, failed or not.
SourcesFetchedWithErrors(res, errs) == Cardinality(DOMAIN res) + Len(errs)

\* len(results)
SourcesFetched(res, errs) == Cardinality(DOMAIN res)

\* The dict fetch_all_research returns.
Returned(res, errs, cfg) ==
    [status |-> StatusOf(res, errs),
     research_data |-> res,
     errors |-> errs,
     sources_fetched |-> SourcesFetched(res, errs),
     config |-> cfg]

EmptyDict == [k \in {} |-> <<>>]

\* An empty provider response.
NoAnswer == [kind |-> "ok", payload |-> <<>>, tz |-> 0]

\* The call expression of a block raises before the adapter runs.
CallRaises == [kind |-> "call_raises", payload |-> <<>>, tz |-> 0]

\* What can happen to the call of one block: a full response, a failure of
\* the request, or a call expression that raises.
Answers ==
    {e \in Events : e.kind = "ok" => Len(e.payload) = MaxItems} \cup {CallRaises}

\* errors keeps the latest entry only.
RecordedLatest(errs, entry) == <<entry>>

\* errors.append(entry)
Recorded(errs, entry) == Append(errs, entry)

\* The try/except block of s on answer a: results and errors after it.
Block(s, a, res, errs, cfg) ==
    IF a = CallRaises
    THEN [results |-> res, errors |-> Recorded(errs, ExceptEntry(s, "TypeError"))]
    ELSE LET result == Wrapped(Func(s, AggArgs(s, cfg), a)).value
         IN  IF result.status = "success"
             THEN [results |-> res @@ (s :> result.items), errors |-> errs]
             ELSE [results |-> res, errors |-> Recorded(errs, ErrorEntry(s, result.message))]

\* The blocks of fetch_all_research from the i-th on, in the order of the
\* code, each on its answer, and the dict returned after the last.
RECURSIVE InCodeOrder(_, _, _, _, _)
InCodeOrder(i, ans, res, errs, cfg) ==
    IF i > Len(Order) THEN Returned(res, errs, cfg)
    ELSE IF ~Attempts(Order[i]) THEN InCodeOrder(i + 1, ans, res, errs, cfg)
    ELSE LET b == Block(Order[i], ans[Order[i]], res, errs, cfg)
         IN  InCodeOrder(i + 1, ans, b.results, b.errors, cfg)

\* ---------------------------------------------------------------- state machine
\* No batch and no adapter call in progress, no limiter used yet.
Idle ==
    /\ elapsed = [s \in Sources |-> Interval(s)]
    /\ agg_pc = "idle"
    /\ config = [k \in {} |-> 1]
    /\ results = EmptyDict
    /\ errors = <<>>
    /\ ret = <<>>
    /\ ad_pc = "none"
    /\ ad_src = "papers"
    /\ ad_caller = "client"
    /\ ad_args = DefaultArgs
    /\ wait_time = 0
    /\ ad_ret = <<>>
    /\ attempted = [s \in Sources |-> 0]
    /\ failed = {}
    /\ net_calls = 0
    /\ raised = "none"
    /\ admit = [src |-> "papers", gap |-> Interval("papers"), slept |-> FALSE]
    /\ probe = <<>>
    /\ calling = "papers"
    /\ callers = [t \in Threads |-> IdleCaller]
    /\ used = FALSE
    /\ spacing = FirstSpacing("papers")
    /\ answers = [s \in Sources |-> NoAnswer]
    /\ tasks = [s \in Sources |-> "todo"]

\* The server is serving.  The research tools read only the two optional
\* keys below, so the other keys are taken as set.
Init ==
    /\ GOOGLE_CLIENT_ID = TRUE
    /\ GOOGLE_CLIENT_SECRET = TRUE
    /\ GOOGLE_REFRESH_TOKEN = TRUE
    /\ NEWSLETTER_FOLDER_ID = TRUE
    /\ GITHUB_TOKEN = TRUE
    /\ PRODUCT_HUNT_API_KEY \in BOOLEAN
    /\ TWITTER_BEARER_TOKEN \in BOOLEAN
    /\ main_pc = "serving"
    /\ valid = <<ValidateConfig.result>>
    /\ log = StartLines \o ValidateConfig.logged \o ReportLines(ValidateConfig.result)
                \o ReadyLines
    /\ Idle

\* A second passes.
Tick ==
    /\ elapsed' = Later(elapsed, 1)
    /\ UNCHANGED <<others, PRODUCT_HUNT_API_KEY, TWITTER_BEARER_TOKEN, agg_pc, config,
                   results, errors, ret, ad_pc, ad_src, ad_caller, ad_args,
                   wait_time, ad_ret, attempted, failed, net_calls, raised, admit>>

\* A client calls fetch_all_research(arg): the locals are set up.
FetchAllResearch(arg) ==
    /\ agg_pc = "idle"
    /\ ad_pc = "none"
    /\ agg_pc' = Order[1]
    /\ config' = IF arg.is_none THEN DefaultConfig ELSE arg.dict
    /\ results' = EmptyDict
    /\ errors' = <<>>
    /\ ret' = <<>>
    /\ ad_ret' = <<>>
    /\ attempted' = [s \in Sources |-> 0]
    /\ failed' = {}
    /\ UNCHANGED <<others, PRODUCT_HUNT_API_KEY, TWITTER_BEARER_TOKEN, elapsed, ad_pc,
                   ad_src, ad_caller, ad_args, wait_time, net_calls, raised, admit>>

\* The block of a source whose credential is not configured is skipped.
AggSkip(s) ==
    /\ agg_pc = s
    /\ ad_pc = "none"
    /\ ~Attempts(s)
    /\ agg_pc' = NextBlock(s)
    /\ UNCHANGED <<others, PRODUCT_HUNT_API_KEY, TWITTER_BEARER_TOKEN, elapsed, config,
                   results, errors, ret, ad_pc, ad_src, ad_caller, ad_args,
                   wait_time, ad_ret, attempted, failed, net_calls, raised, admit>>

\* The block of s calls its adapter: control enters the limiter wrapper.
AggCall(s) ==
    /\ agg_pc = s
    /\ ad_pc = "none"
    /\ Attempts(s)
    /\ attempted' = [attempted EXCEPT ![s] = @ + 1]
    /\ ad_pc' = "rate_limit"
    /\ ad_src' = s
    /\ ad_caller' = "agg"
    /\ ad_args' = AggArgs(s, config)
    /\ net_calls' = 0
    /\ raised' = "none"
    /\ UNCHANGED <<others, PRODUCT_HUNT_API_KEY, TWITTER_BEARER_TOKEN, elapsed, agg_pc,
                   config, results, errors, ret, wait_time, ad_ret, failed, admit>>

\* The call expression of the block of s raises before the adapter runs (the
\* name is bound to a registered tool object that cannot be called).  The
\* except clause of the block records it; an exception the clause does not
\* take leaves fetch_all_research and becomes the error result of its own
\* safe_api_call.
AggCallRaises(s) ==
    /\ agg_pc = s
    /\ ad_pc = "none"
    /\ Attempts(s)
    /\ attempted' = [attempted EXCEPT ![s] = @ + 1]
    /\ failed' = failed \cup {s}
    /\ IF BlockCatches("TypeError")
       THEN /\ errors' = Append(errors, ExceptEntry(s, "TypeError"))
            /\ agg_pc' = AfterBlock(s, FALSE)
            /\ UNCHANGED <<results, ret>>
       ELSE /\ ret' = <<Escaped("TypeError")>>
            /\ agg_pc' = "done"
            /\ results' = EmptyDict
            /\ errors' = <<>>
    /\ UNCHANGED <<others, PRODUCT_HUNT_API_KEY, TWITTER_BEARER_TOKEN, elapsed, config,
                   ad_pc, ad_src, ad_caller, ad_args, wait_time, ad_ret,
                   net_calls, raised, admit>>

\* A client calls adapter s directly, with its default arguments.
ClientCall(s) ==
    /\ agg_pc = "idle"
    /\ ad_pc = "none"
    /\ ad_pc' = "rate_limit"
    /\ ad_src' = s
    /\ ad_caller' = "client"
    /\ ad_args' = DefaultArgs
    /\ ad_ret' = <<>>
    /\ net_calls' = 0
    /\ raised' = "none"
    /\ UNCHANGED <<others, PRODUCT_HUNT_API_KEY, TWITTER_BEARER_TOKEN, elapsed, agg_pc,
                   config, results, errors, ret, wait_time, attempted, failed, admit>>

\* rate_limit wrapper: elapsed and wait_time are computed.
RateLimitEnter ==
    /\ ad_pc = "rate_limit"
    /\ wait_time' = WaitTime(ad_src, elapsed[ad_src])
    /\ ad_pc' = IF wait_time' > 0 THEN "sleep" ELSE "admit"
    /\ UNCHANGED <<others, PRODUCT_HUNT_API_KEY, TWITTER_BEARER_TOKEN, elapsed, agg_pc,
                   config, results, errors, ret, ad_src, ad_caller, ad_args,
                   ad_ret, attempted, failed, net_calls, raised, admit>>

\* rate_limit wrapper: time.sleep(wait_time) returns wait_time seconds later
\* (a longer sleep is this step followed by Tick steps).
RateLimitSleep ==
    /\ ad_pc = "sleep"
    /\ elapsed' = Later(elapsed, wait_time)
    /\ ad_pc' = "admit"
    /\ UNCHANGED <<others, PRODUCT_HUNT_API_KEY, TWITTER_BEARER_TOKEN, agg_pc, config,
                   results, errors, ret, ad_src, ad_caller, ad_args, wait_time,
                   ad_ret, attempted, failed, net_calls, raised, admit>>

\* rate_limit wrapper: last_called[0] = time.time(); the wrapped function
\* starts.
RateLimitAdmit ==
    /\ ad_pc = "admit"
    /\ admit' = [src |-> ad_src, gap |-> elapsed[ad_src], slept |-> wait_time > 0]
    /\ elapsed' = Admitted(elapsed, ad_src)
    /\ ad_pc' = "func"
    /\ UNCHANGED <<others, PRODUCT_HUNT_API_KEY, TWITTER_BEARER_TOKEN, agg_pc, config,
                   results, errors, ret, ad_src, ad_caller, ad_args, wait_time,
                   ad_ret, attempted, failed, net_calls, raised>>

\* The adapter called by a client runs its body and returns through
\* safe_api_call.
AdapterReturnsToClient ==
    /\ ad_pc = "func"
    /\ ad_caller = "client"
    /\ \E ev \in Events :
          LET out == Func(ad_src, ad_args, ev)
          IN  /\ ad_ret' = <<Wrapped(out)>>
              /\ net_calls' = out.net
              /\ raised' = out.raises
    /\ ad_pc' = "none"
    /\ ad_args' = DefaultArgs
    /\ wait_time' = 0
    /\ UNCHANGED <<others, PRODUCT_HUNT_API_KEY, TWITTER_BEARER_TOKEN, elapsed, agg_pc,
                   config, results, errors, ret, ad_src, ad_caller, attempted, failed,
                   admit>>

\* The adapter called by fetch_all_research runs its body and returns through
\* safe_api_call; the block records the items or the error and ends.
AdapterReturnsToAgg ==
    /\ ad_pc = "func"
    /\ ad_caller = "agg"
    /\ \E ev \in Events :
          LET out == Func(ad_src, ad_args, ev)
              w == Wrapped(out)
              ok == w.raises = "none" /\ w.value.status = "success"
              caught == w.raises = "none" \/ BlockCatches(w.raises)
          IN  /\ net_calls' = out.net
              /\ raised' = out.raises
              /\ failed' = IF ok THEN failed ELSE failed \cup {ad_src}
              /\ results' = IF ok THEN results @@ (ad_src :> w.value.items)
                            ELSE IF caught THEN results ELSE EmptyDict
              /\ errors' = IF ok THEN errors
                           ELSE IF w.raises = "none"
                           THEN Append(errors, ErrorEntry(ad_src, w.value.message))
                           ELSE IF caught
                           THEN Append(errors, ExceptEntry(ad_src, w.raises))
                           ELSE <<>>
              /\ agg_pc' = IF caught THEN AfterBlock(ad_src, ok) ELSE "done"
              /\ ret' = IF caught THEN ret ELSE <<Escaped(w.raises)>>
    /\ ad_pc' = "none"
    /\ ad_args' = DefaultArgs
    /\ wait_time' = 0
    /\ UNCHANGED <<others, PRODUCT_HUNT_API_KEY, TWITTER_BEARER_TOKEN, elapsed, config,
                   ad_src, ad_caller, ad_ret, attempted, admit>>

\* fetch_all_research returns its result dict.
AggReturn ==
    /\ agg_pc = "return"
    /\ ret' = <<Returned(results, errors, config)>>
    /\ agg_pc' = "done"
    /\ results' = EmptyDict
    /\ errors' = <<>>
    /\ UNCHANGED <<others, PRODUCT_HUNT_API_KEY, TWITTER_BEARER_TOKEN, elapsed, config,
                   ad_pc, ad_src, ad_caller, ad_args, wait_time, ad_ret,
                   attempted, failed, net_calls, raised, admit>>

\* The client has taken the result; the server is idle again.
ClientResumes ==
    /\ agg_pc = "done"
    /\ agg_pc' = "idle"
    /\ ret' = <<>>
    /\ config' = [k \in {} |-> 1]
    /\ attempted' = [s \in Sources |-> 0]
    /\ failed' = {}
    /\ UNCHANGED <<others, PRODUCT_HUNT_API_KEY, TWITTER_BEARER_TOKEN, elapsed, results,
                   errors, ad_pc, ad_src, ad_caller, ad_args, wait_time, ad_ret,
                   net_calls, raised, admit>>

Next ==
    \/ Tick
    \/ \E arg \in ConfigArgs : FetchAllResearch(arg)
    \/ \E s \in Sources : AggSkip(s)
    \/ \E s \in Sources : AggCall(s)
    \/ \E s \in Sources : AggCallRaises(s)
    \/ \E s \in Sources : ClientCall(s)
    \/ RateLimitEnter
    \/ RateLimitSleep
    \/ RateLimitAdmit
    \/ AdapterReturnsToClient
    \/ AdapterReturnsToAgg
    \/ AggReturn
    \/ ClientResumes

Spec == Init /\ [][Next]_vars

\* ---------------------------------------------------------------- properties
\* fetch_all_research has ended and its caller holds what it returned.
Done == agg_pc = "done" /\ ret # <<>>

\* The fields of the dict a batch returns.
ResultKeys == {"status", "research_data", "errors", "sources_fetched", "config"}

\* The sources named by the entries of an errors list.
Named(errs) == {s \in Sources : \E i \in 1..Len(errs) : errs[i].source = Label(s)}

\* The sources whose call expression was evaluated in this batch.
AttemptedSet == {s \in Sources : attempted[s] >= 1}

Configured(s) ==
    CASE s = "products" -> PRODUCT_HUNT_API_KEY
      [] s = "tweets" -> TWITTER_BEARER_TOKEN
      [] OTHER -> TRUE

\* C1: failure isolation.  When a batch has ended, every enabled source has
\* been attempted, whichever of the others failed by an error result or by a
\* raised exception: for every failed source f, each other enabled source
\* was still attempted.
C1_FailureIsolation ==
    Done =>
        \A f \in failed :
            \A s \in Sources \ {f} : Configured(s) => attempted[s] >= 1

\* C1 witness: all four sources enabled, the first three failed (one by a
\* raised exception) and the last one was still attempted and fetched.
C1_Witness ==
    /\ Done
    /\ failed = {"papers", "repositories", "products"}
    /\ \E i \in 1..3 : ret[1].errors[i].message = <<"", "TypeError">>
    /\ attempted["tweets"] = 1
    /\ "tweets" \in DOMAIN ret[1].research_data

\* C2: in every returned result, status is "success" exactly when errors is
\* empty and "partial" exactly when it is not.
C2_StatusIffNoErrors ==
    Done =>
        /\ ret[1].status = "success" <=> ret[1].errors = <<>>
        /\ ret[1].status = "partial" <=> ret[1].errors # <<>>

\* C2 witness: a batch over all four sources in which none failed.
C2_Witness ==
    /\ Done
    /\ failed = {}
    /\ AttemptedSet = Sources
    /\ ret[1].status = "success"
    /\ ret[1].errors = <<>>

\* C3: accounting.  With A the attempted sources and F the failed ones,
\* sources_fetched = |A| - |F| = number of keys of research_data, errors has
\* exactly one entry per source of F and names it, and every attempted
\* source is in exactly one of research_data and errors.
C3_Accounting ==
    Done =>
        LET r == ret[1]
            keys == DOMAIN r.research_data
        IN  /\ r.sources_fetched = Cardinality(AttemptedSet) - Cardinality(failed)
            /\ r.sources_fetched = Cardinality(keys)
            /\ Len(r.errors) = Cardinality(failed)
            /\ Named(r.errors) = failed
            /\ keys \cup failed = AttemptedSet
            /\ keys \cap failed = {}

\* C3 witness: all four sources configured and exactly one failing: status
\* partial, three sources fetched with their items, one entry naming the
\* failed source.
C3_Witness ==
    /\ Done
    /\ AttemptedSet = Sources
    /\ failed = {"repositories"}
    /\ ret[1].status = "partial"
    /\ ret[1].sources_fetched = 3
    /\ Len(ret[1].errors) = 1
    /\ ret[1].errors[1].source = "Repos"
    /\ \A s \in {"papers", "products", "tweets"} :
          s \in DOMAIN ret[1].research_data /\ Len(ret[1].research_data[s]) = 1

\* C4: source selection.  In every batch papers and repositories are
\* attempted; products is attempted exactly when PRODUCT_HUNT_API_KEY is
\* configured and tweets exactly when TWITTER_BEARER_TOKEN is.
C4_SourceSelection ==
    Done =>
        /\ attempted["papers"] >= 1
        /\ attempted["repositories"] >= 1
        /\ attempted["products"] >= 1 <=> PRODUCT_HUNT_API_KEY
        /\ attempted["tweets"] >= 1 <=> TWITTER_BEARER_TOKEN

\* C4 witness: a batch with the product key configured and the social token
\* not: products attempted, tweets not.
C4_Witness ==
    /\ Done
    /\ PRODUCT_HUNT_API_KEY
    /\ ~TWITTER_BEARER_TOKEN
    /\ attempted["products"] = 1
    /\ attempted["tweets"] = 0

\* C5: no retry.  Within one batch no source is attempted more than once,
\* whether its call succeeds, returns an error result or raises.
C5_NoRetry == \A s \in Sources : attempted[s] <= 1

\* C5 witness: a batch has ended in which a source returned an error result
\* and another raised, each attempted once.
C5_Witness ==
    /\ Done
    /\ failed = {"papers", "tweets"}
    /\ ret[1].errors[1].message = <<"Request timeout", "">>
    /\ ret[1].errors[2].message = <<"", "TypeError">>
    /\ attempted["papers"] = 1
    /\ attempted["tweets"] = 1

\* C6: the batch never raises.  Whatever the adapters do and whatever config
\* is passed, what fetch_all_research returns carries status, research_data,
\* errors, sources_fetched and config, never the bare {status: error,
\* message} of an escaped exception; when a source failed its status is
\* partial and errors holds the accumulated entries.
C6_NeverRaises ==
    Done =>
        /\ DOMAIN ret[1] = ResultKeys
        /\ ret[1].status \in {"success", "partial"}
        /\ failed # {} => ret[1].status = "partial" /\ Named(ret[1].errors) = failed

\* C6 witness: every attempted source failed, by a raised exception or an
\* error result, and the batch still returned the full dict.
C6_Witness ==
    /\ Done
    /\ failed = Sources
    /\ DOMAIN ret[1] = ResultKeys
    /\ ret[1].status = "partial"
    /\ Len(ret[1].errors) = 4
    /\ ret[1].errors[1].message = <<"", "TypeError">>
    /\ ret[1].errors[2].message = <<"Unexpected error", "KeyError">>
    /\ ret[1].config = DefaultConfig

\* A direct adapter call has returned to the client.
Returned1 == ad_caller = "client" /\ ad_pc = "none" /\ ad_ret # <<>>

\* C7: missing credential.  search_product_hunt called without
\* PRODUCT_HUNT_API_KEY, and fetch_twitter_trends called without
\* TWITTER_BEARER_TOKEN, return status "error" with the message about the
\* missing configuration and issue no transport request.
C7_MissingCredential ==
    Returned1 =>
        /\ (ad_src = "products" /\ ~PRODUCT_HUNT_API_KEY) =>
              /\ ad_ret[1].raises = "none"
              /\ ad_ret[1].value.status = "error"
              /\ ad_ret[1].value.message =
                    <<"Product Hunt API key not configured. Set PRODUCT_HUNT_API_KEY environment variable.", "">>
              /\ net_calls = 0
        /\ (ad_src = "tweets" /\ ~TWITTER_BEARER_TOKEN) =>
              /\ ad_ret[1].raises = "none"
              /\ ad_ret[1].value.status = "error"
              /\ ad_ret[1].value.message =
                    <<"Twitter API token not configured. Set TWITTER_BEARER_TOKEN environment variable.", "">>
              /\ net_calls = 0

\* C7 witness: search_product_hunt has returned to a client with the key
\* not configured.
C7_Witness ==
    /\ Returned1
    /\ ad_src = "products"
    /\ ~PRODUCT_HUNT_API_KEY
    /\ ad_ret[1].value.status = "error"
    /\ net_calls = 0

\* C8: adapters never raise past their boundary.  Whatever the body of any
\* of the four adapters raises, the caller receives a result with status
\* "error": "Request timeout" for a timeout, "Request failed: ..." for any
\* other request error (a non-2xx status among them), "Unexpected error:
\* ..." for anything else; a timeout is never reported as a request failure.
C8_ErrorsReturnedAndClassified ==
    Returned1 =>
        /\ ad_ret[1].raises = "none"
        /\ raised # "none" => ad_ret[1].value.status = "error"
        /\ raised = "Timeout" => ad_ret[1].value.message = <<"Request timeout", "">>
        /\ raised = "HTTPError" => ad_ret[1].value.message = <<"Request failed", "HTTPError">>
        /\ raised \in {"KeyError", "TypeError"} =>
              ad_ret[1].value.message = <<"Unexpected error", raised>>

\* C8 witness: the transport of fetch_twitter_trends timed out and the
\* client received the timeout result.
C8_Witness ==
    /\ Returned1
    /\ ad_src = "tweets"
    /\ raised = "Timeout"
    /\ ad_ret[1].value.status = "error"
    /\ ad_ret[1].value.message = <<"Request timeout", "">>

\* The calls-per-minute budget of each rate-limited operation.
Budget(s) ==
    CASE s = "papers" -> 30
      [] s = "repositories" -> 30
      [] s = "products" -> 20
      [] s = "tweets" -> 15

\* C9: minimum spacing.  With calls made one after another, every admission
\* on a limiter of budget C comes at least 60/C seconds after the admission
\* before it on the same limiter.
C9_MinSpacing == admit.gap * Budget(admit.src) >= 60

\* C9 witness: a call to fetch_twitter_trends found its limiter inside the
\* window, slept, and was admitted 4 seconds after the call before it.
C9_Witness ==
    /\ ad_pc = "func"
    /\ ad_src = "tweets"
    /\ admit.src = "tweets"
    /\ admit.slept
    /\ admit.gap = 4

\* C10: limiter isolation.  No step of a call to one adapter moves the
\* last-call timestamp of another adapter's limiter, and whether a call
\* sleeps is decided by its own limiter alone: a call whose own limiter is
\* out of its window is admitted without sleeping whatever the state of the
\* other limiters.
C10_LimiterIsolation ==
    [][/\ \A t \in Sources :
             (ad_pc # "none" /\ t # ad_src) => elapsed'[t] >= elapsed[t]
       /\ (ad_pc = "rate_limit" /\ elapsed[ad_src] * Budget(ad_src) >= 60)
             => ad_pc' # "sleep"]_vars

\* C10 witness: a call to search_arxiv_papers slept and was admitted while
\* the limiters of products and tweets were inside their windows, which
\* kept running.
C10_Witness ==
    /\ ad_pc = "func"
    /\ ad_src = "papers"
    /\ admit.slept
    /\ elapsed["papers"] = 0
    /\ elapsed["products"] \in 1..2
    /\ elapsed["tweets"] \in 1..3

\* ---------------------------------------------------------------- __main__
\* The process starts with any subset of the seven keys set.
InitStartup ==
    /\ GOOGLE_CLIENT_ID \in BOOLEAN
    /\ GOOGLE_CLIENT_SECRET \in BOOLEAN
    /\ GOOGLE_REFRESH_TOKEN \in BOOLEAN
    /\ NEWSLETTER_FOLDER_ID \in BOOLEAN
    /\ GITHUB_TOKEN \in BOOLEAN
    /\ PRODUCT_HUNT_API_KEY \in BOOLEAN
    /\ TWITTER_BEARER_TOKEN \in BOOLEAN
    /\ main_pc = "start"
    /\ valid = <<>>
    /\ log = <<>>
    /\ Idle

\* The Config attributes and everything of the serving process.
fixed == <<GOOGLE_CLIENT_ID, GOOGLE_CLIENT_SECRET, GOOGLE_REFRESH_TOKEN,
           NEWSLETTER_FOLDER_ID, GITHUB_TOKEN, server, probe, contention, gather>>

\* logger.info("Starting AI Newsletter MCP Server...")
MainStart ==
    /\ main_pc = "start"
    /\ log' = log \o StartLines
    /\ main_pc' = "validate"
    /\ UNCHANGED <<fixed, valid>>

\* The call of validate_config().
MainValidate ==
    /\ main_pc = "validate"
    /\ log' = log \o ValidateConfig.logged
    /\ valid' = <<ValidateConfig.result>>
    /\ main_pc' = "report"
    /\ UNCHANGED fixed

\* if not validate_config(): two errors, else: one info.
MainReport ==
    /\ main_pc = "report"
    /\ log' = log \o ReportLines(valid[1])
    /\ main_pc' = "ready"
    /\ UNCHANGED <<fixed, valid>>

\* logger.info("Server ready to accept connections")
MainReady ==
    /\ main_pc = "ready"
    /\ log' = log \o ReadyLines
    /\ main_pc' = "run"
    /\ UNCHANGED <<fixed, valid>>

\* mcp.run(): the server serves from here on.
MainRun ==
    /\ main_pc = "run"
    /\ main_pc' = "serving"
    /\ UNCHANGED <<fixed, valid, log>>

NextStartup == MainStart \/ MainValidate \/ MainReport \/ MainReady \/ MainRun

SpecStartup == InitStartup /\ [][NextStartup]_vars

\* ---------------------------------------------------------------- concurrent callers
\* Callers in separate threads call one adapter; any limiter may be the one.
InitLimiter ==
    /\ Init
    /\ PRODUCT_HUNT_API_KEY
    /\ TWITTER_BEARER_TOKEN

\* What the steps of the concurrent callers leave alone.
apart == <<PRODUCT_HUNT_API_KEY, TWITTER_BEARER_TOKEN, agg_pc, config, results,
           errors, ret, ad_pc, ad_src, ad_caller, ad_args, wait_time, ad_ret,
           attempted, failed, net_calls, raised, admit, probe, startup, gather>>

\* The callers settle on the adapter they call, before any of them calls.
ChooseAdapter(s) ==
    /\ ~used
    /\ \A t \in Threads : callers[t].pc = "idle"
    /\ s # calling
    /\ calling' = s
    /\ spacing' = FirstSpacing(s)
    /\ UNCHANGED <<apart, elapsed, callers, used>>

\* wrapper: elapsed = time.time() - last_called[0]; wait_time = ...; the
\* test of wait_time.
LimiterEnter(t) ==
    /\ callers[t].pc = "idle"
    /\ LET w == WaitTime(calling, elapsed[calling])
       IN  callers' = [callers EXCEPT ![t] =
                [pc |-> IF ShouldSleep(w) THEN "sleep" ELSE "write",
                 seen |-> elapsed[calling],
                 wait_time |-> w,
                 slept |-> ShouldSleep(w),
                 remaining |-> IF ShouldSleep(w) THEN SleepFor(w) ELSE 0,
                 since_seen |-> elapsed[calling],
                 first |-> ~used]]
    /\ UNCHANGED <<apart, elapsed, calling, used, spacing>>

\* time.sleep(wait_time) returns, once the time asked for has passed.
LimiterWake(t) ==
    /\ callers[t].pc = "sleep"
    /\ callers[t].remaining <= 0
    /\ callers' = [callers EXCEPT ![t].pc = "write"]
    /\ UNCHANGED <<apart, elapsed, calling, used, spacing>>

\* last_called[0] = time.time(): the caller is admitted.
LimiterAdmit(t) ==
    /\ callers[t].pc = "write"
    /\ spacing' = [gap |-> elapsed[calling], since_seen |-> callers[t].since_seen]
    /\ elapsed' = Admitted(elapsed, calling)
    /\ used' = TRUE
    /\ callers' = [callers EXCEPT ![t].pc = "func"]
    /\ UNCHANGED <<apart, calling>>

\* return func(*args, **kwargs): the call ends.
LimiterReturn(t) ==
    /\ callers[t].pc = "func"
    /\ callers' = [callers EXCEPT ![t] = IdleCaller]
    /\ UNCHANGED <<apart, elapsed, calling, used, spacing>>

\* A second passes for every caller.
LimiterTick ==
    /\ elapsed' = Later(elapsed, 1)
    /\ callers' = [t \in Threads |->
            IF callers[t].pc \in {"sleep", "write"}
            THEN [callers[t] EXCEPT
                    !.remaining = IF @ > 0 THEN @ - 1 ELSE @,
                    !.since_seen = Min(@ + 1, Interval(calling))]
            ELSE callers[t]]
    /\ UNCHANGED <<apart, calling, used, spacing>>

NextLimiter ==
    \/ \E s \in Sources : ChooseAdapter(s)
    \/ \E t \in Threads : LimiterEnter(t)
    \/ \E t \in Threads : LimiterWake(t)
    \/ \E t \in Threads : LimiterAdmit(t)
    \/ \E t \in Threads : LimiterReturn(t)
    \/ LimiterTick

SpecLimiter == InitLimiter /\ [][NextLimiter]_vars

\* ---------------------------------------------------------------- one task per source
\* What the steps of the tasks leave alone.
aside == <<PRODUCT_HUNT_API_KEY, TWITTER_BEARER_TOKEN, elapsed, ad_pc, ad_src,
           ad_caller, ad_args, wait_time, ad_ret, attempted, failed, net_calls,
           raised, admit, probe, startup, contention>>

\* fetch_all_research starts with the blocks as tasks, the answer of each
\* source fixed.
StartTasks(arg, ans) ==
    /\ agg_pc' = "gather"
    /\ config' = IF arg.is_none THEN DefaultConfig ELSE arg.dict
    /\ results' = EmptyDict
    /\ errors' = <<>>
    /\ answers' = ans
    /\ tasks' = [s \in Sources |-> "todo"]
    /\ UNCHANGED <<aside, ret>>

\* The task of a source whose credential is not configured has nothing to do.
TaskSkip(s) ==
    /\ agg_pc = "gather"
    /\ tasks[s] = "todo"
    /\ ~Attempts(s)
    /\ tasks' = [tasks EXCEPT ![s] = "recorded"]
    /\ UNCHANGED <<aside, agg_pc, config, results, errors, ret, answers>>

\* The task of s evaluates its call; its result is answers[s].
TaskCall(s) ==
    /\ agg_pc = "gather"
    /\ tasks[s] = "todo"
    /\ Attempts(s)
    /\ tasks' = [tasks EXCEPT ![s] = "called"]
    /\ UNCHANGED <<aside, agg_pc, config, results, errors, ret, answers>>

\* The task of s records its result in results or in errors.
TaskRecord(s) ==
    /\ agg_pc = "gather"
    /\ tasks[s] = "called"
    /\ LET b == Block(s, answers[s], results, errors, config)
       IN  /\ results' = b.results
           /\ errors' = b.errors
    /\ tasks' = [tasks EXCEPT ![s] = "recorded"]
    /\ UNCHANGED <<aside, agg_pc, config, ret, answers>>

\* Every task has ended: fetch_all_research returns its result dict.
TasksReturn ==
    /\ agg_pc = "gather"
    /\ \A s \in Sources : tasks[s] = "recorded"
    /\ ret' = <<Returned(results, errors, config)>>
    /\ agg_pc' = "done"
    /\ UNCHANGED <<aside, config, results, errors, answers, tasks>>

NextTasks ==
    \/ agg_pc = "idle" /\ \E arg \in ConfigArgs, ans \in [Sources -> Answers] :
                                StartTasks(arg, ans)
    \/ \E s \in Sources : TaskSkip(s)
    \/ \E s \in Sources : TaskCall(s)
    \/ \E s \in Sources : TaskRecord(s)
    \/ TasksReturn

SpecTasks == Init /\ [][NextTasks]_vars

\* ---------------------------------------------------------------- one adapter call
\* Longest provider response enumerated for a single adapter call.
MaxPayload == 3

\* The sequences over S of length at most n.
SeqsUpTo(S, n) == UNION {[1..k -> S] : k \in 0..n}

\* Without the else branch's default: an unrecognised timeframe is taken as
\* "weekly".
TimeframeDaysWeeklyDefault(timeframe) ==
    IF timeframe = "daily" THEN 1
    ELSE IF timeframe = "monthly" THEN 30
    ELSE 7

\* The number of days back the creation date of the repository query lies:
\* 1 for "daily", 7 for "weekly", 30 for anything else.
TimeframeDays(timeframe) ==
    IF timeframe = "daily" THEN 1
    ELSE IF timeframe = "weekly" THEN 7
    ELSE 30

\* strftime("%Y-%m-%d") of the instant h hours into the local clock: its day.
DateOf(h) == h \div HoursPerDay

\* The date in "created:>{date}" when the local clock reads now (hours).
CreatedAfter(timeframe, now) ==
    DateOf(now - HoursPerDay * TimeframeDays(timeframe))

\* What the request of adapter s asks of the provider: the page size and,
\* for repositories, the creation date to exceed.
Request(s, args, now) ==
    [size |-> PageSize(s, args),
     created_after |-> IF s = "repositories"
                       THEN <<CreatedAfter(args.timeframe, now)>>
                       ELSE <<>>]

\* Provider entries of each source: ages around the 1-day and 7-day
\* windows, likes around min_likes.
PaperEntries == {Entry(a, 0, 0) : a \in {0, 24, 25, 168, 169}}

TweetEntries ==
    {Entry(0, l, r) : l \in {50, 100, 150, 300}, r \in {0, 100}} \cup {Entry(200, 150, 0)}

OtherEntries == {Entry(a, 0, 0) : a \in {0, 200}}

\* Responses longer than the enumerated ones: 25 papers of which 4 are
\* inside a 7-day window, and 12 tweets that all pass min_likes = 100.
LongPaperPayloads ==
    {[i \in 1..25 |-> IF i \in W THEN Entry(0, 0, 0) ELSE Entry(200, 0, 0)] :
        W \in {{1, 2, 3, 4}, {3, 9, 15, 20}}}

LongTweetPayloads ==
    {[i \in 1..12 |-> Entry(0, 100 + i, 0)], [i \in 1..12 |-> Entry(0, 112 - i, i)]}

\* The host's UTC offsets and local clock readings (hours) tried.
UtcOffsets == {-1, 0, 1}

Clocks == {720, 743}

Timeframes == {"daily", "weekly", "monthly", "yearly"}

OkEvents(payloads, offsets) == [kind : {"ok"}, payload : payloads, tz : offsets]

\* The adapter calls tried one at a time: the adapter, its arguments, the
\* provider event and the host's clock.
ProbeCalls ==
    [src : {"papers"},
     args : {[DefaultArgs EXCEPT !.limit = m, !.days_back = d] :
                m \in {0, 1, 2, 10}, d \in {1, 7}},
     ev : OkEvents(SeqsUpTo(PaperEntries, MaxPayload) \cup LongPaperPayloads, UtcOffsets)
             \cup Failures,
     now : {720}]
    \cup
    [src : {"repositories"},
     args : {[DefaultArgs EXCEPT !.timeframe = f] : f \in Timeframes},
     ev : OkEvents(SeqsUpTo(OtherEntries, MaxPayload), {0}) \cup Failures,
     now : Clocks]
    \cup
    [src : {"products"},
     args : {[DefaultArgs EXCEPT !.limit = m, !.days_back = d] :
                m \in {1, 2, 10}, d \in {1, 7}},
     ev : OkEvents(SeqsUpTo(OtherEntries, MaxPayload), {0}) \cup Failures,
     now : {720}]
    \cup
    [src : {"tweets"},
     args : {[DefaultArgs EXCEPT !.min_likes = l, !.days_back = d] :
                l \in {100, 150}, d \in {1, 7}},
     ev : OkEvents(SeqsUpTo(TweetEntries, MaxPayload) \cup LongTweetPayloads, {0})
             \cup Failures,
     now : {720}]

\* A client calls adapter c.src once; probe keeps the call, the request it
\* makes and what the client receives.
CallAdapter(c) ==
    /\ probe' = <<[src |-> c.src, args |-> c.args, ev |-> c.ev, now |-> c.now,
                   request |-> Request(c.src, c.args, c.now),
                   out |-> Wrapped(Func(c.src, c.args, c.ev)).value]>>
    /\ UNCHANGED <<server, startup, contention, gather>>

\* One call per behaviour: the calls do not interact.
NextAdapter == probe = <<>> /\ \E c \in ProbeCalls : CallAdapter(c)

\* Single adapter calls, each on its own inputs.
SpecAdapter == Init /\ [][NextAdapter]_vars

\* C11: config overrides.  The lookback window and the maximum counts of
\* config reach the adapter call of their source, with 7 days and 10 items
\* when a key is omitted, so research_data never holds more papers than
\* max_papers, more repositories than max_repos or more products than
\* max_products.
C11_ConfigOverrides ==
    /\ (ad_caller = "agg" /\ ad_pc # "none" /\ ad_src \in {"papers", "products"}) =>
          /\ ad_args.days_back = Get(config, "days_back", 7)
          /\ ad_args.limit =
                Get(config, IF ad_src = "papers" THEN "max_papers" ELSE "max_products", 10)
    /\ Done =>
          LET data == ret[1].research_data
              cfg == ret[1].config
          IN  /\ "papers" \in DOMAIN data =>
                    Len(data["papers"]) <= Get(cfg, "max_papers", 10)
              /\ "repositories" \in DOMAIN data =>
                    Len(data["repositories"]) <= Get(cfg, "max_repos", 10)
              /\ "products" \in DOMAIN data =>
                    Len(data["products"]) <= Get(cfg, "max_products", 10)

\* C15: skipped optional source.  A source whose credential is absent is
\* never called by fetch_all_research and leaves no key in research_data
\* and no entry in errors; with both credentials absent and papers and
\* repositories fetched the result is "success" with sources_fetched = 2.
C15_SkippedSource ==
    /\ \A s \in {"products", "tweets"} :
          ~Configured(s) =>
              /\ attempted[s] = 0
              /\ ~(ad_caller = "agg" /\ ad_pc # "none" /\ ad_src = s)
              /\ Done => /\ s \notin DOMAIN ret[1].research_data
                         /\ \A i \in 1..Len(ret[1].errors) :
                                ret[1].errors[i].source # Label(s)
    /\ (Done /\ ~PRODUCT_HUNT_API_KEY /\ ~TWITTER_BEARER_TOKEN
             /\ {"papers", "repositories"} \subseteq DOMAIN ret[1].research_data) =>
          /\ ret[1].status = "success"
          /\ ret[1].sources_fetched = 2

\* C15 witness: a batch with both optional credentials absent ended with
\* status success, two sources fetched and no errors.
C15_Witness ==
    /\ Done
    /\ ~PRODUCT_HUNT_API_KEY
    /\ ~TWITTER_BEARER_TOKEN
    /\ DOMAIN ret[1].research_data = {"papers", "repositories"}
    /\ ret[1].status = "success"
    /\ ret[1].sources_fetched = 2
    /\ ret[1].errors = <<>>

\* C19: adapter step order.  A call to an adapter whose credential is
\* absent is answered before the limiter is consulted: it never sleeps in
\* the limiter and never reaches the write of last_called.
C19_CredentialBeforeLimiter ==
    (ad_pc # "none" /\ ~Configured(ad_src)) => ad_pc \notin {"sleep", "admit"}

\* ---------------------------------------------------------------- adapter claims
\* The single adapter call made, when it returned a success result.
Succeeded(s) ==
    /\ probe # <<>>
    /\ probe[1].src = s
    /\ probe[1].out.status = "success"

\* The number of places of seq holding e.
Occ(seq, e) == Cardinality({i \in DOMAIN seq : seq[i] = e})

\* The entry is no older than days_back days.
WithinLookback(e, days_back) == e.age <= HoursPerDay * days_back

\* C12: lookback filtering.  Every item of a success result of
\* search_product_hunt and of fetch_twitter_trends is no older than the
\* requested days_back window.
C12_LookbackFiltering ==
    \A s \in {"products", "tweets"} :
        Succeeded(s) =>
            \A i \in DOMAIN probe[1].out.items :
                WithinLookback(probe[1].out.items[i], probe[1].args.days_back)

\* C13: paper selection.  search_arxiv_papers asks for at most
\* 2 * max_results candidates and returns, in provider order, the first
\* max_results of them published within days_back of now, with count the
\* length of that list.
C13_PaperSelection ==
    Succeeded("papers") =>
        LET p == probe[1]
            cands == Take(p.ev.payload, 2 * p.args.limit)
            inwindow == SelectSeq(cands, LAMBDA e : WithinLookback(e, p.args.days_back))
        IN  /\ p.request.size <= 2 * p.args.limit
            /\ p.out.items = Take(inwindow, p.args.limit)
            /\ Len(p.out.items) = Min(p.args.limit, Len(inwindow))
            /\ p.out.count = Len(p.out.items)

\* C14: social posts.  A success result of fetch_twitter_trends holds
\* only posts with like_count >= min_likes, in descending order of
\* likes + 2 * retweets, and they are the 10 highest of all such posts of
\* the response (all of them when there are at most 10).
C14_SocialPosts ==
    Succeeded("tweets") =>
        LET p == probe[1]
            items == p.out.items
            posts == p.ev.payload
            passing == {i \in DOMAIN posts : posts[i].likes >= p.args.min_likes}
        IN  /\ \A i \in DOMAIN items : items[i].likes >= p.args.min_likes
            /\ \A i, j \in DOMAIN items :
                   i < j => items[i].likes + 2 * items[i].retweets
                               >= items[j].likes + 2 * items[j].retweets
            /\ Len(items) = Min(Cardinality(passing), 10)
            /\ \A i \in DOMAIN items : \E k \in passing : posts[k] = items[i]
            /\ \A k \in passing :
                   \/ Occ(items, posts[k]) = Occ(posts, posts[k])
                   \/ /\ Len(items) = 10
                      /\ Occ(items, posts[k]) < Occ(posts, posts[k])
                      /\ posts[k].likes + 2 * posts[k].retweets
                            <= items[10].likes + 2 * items[10].retweets

\* Likes [50, 150, 300] with min_likes = 100 gave the posts with 300 and
\* 150 likes, in that order.
C14_Witness ==
    /\ Succeeded("tweets")
    /\ probe[1].args.min_likes = 100
    /\ probe[1].ev.payload = <<Entry(0, 50, 0), Entry(0, 150, 0), Entry(0, 300, 0)>>
    /\ probe[1].out.items = <<Entry(0, 300, 0), Entry(0, 150, 0)>>

\* C17: timeframe mapping.  The creation date of the repository query is
\* the date 1 day back for "daily", 7 days back for "weekly" and 30 days
\* back for every other timeframe.
C17_TimeframeMapping ==
    (probe # <<>> /\ probe[1].src = "repositories") =>
        LET p == probe[1]
            back == CASE p.args.timeframe = "daily" -> 1
                      [] p.args.timeframe = "weekly" -> 7
                      [] OTHER -> 30
        IN  p.request.created_after = <<(p.now - HoursPerDay * back) \div HoursPerDay>>

\* An unrecognised timeframe asked for the date 30 days back.
C17_Witness ==
    /\ probe # <<>>
    /\ probe[1].src = "repositories"
    /\ probe[1].args.timeframe = "yearly"
    /\ probe[1].now = 743
    /\ probe[1].request.created_after = <<0>>

\* C22: count consistency.  In every success result of the four adapters
\* count is the number of items of the returned list.
C22_CountIsLength ==
    \A s \in Sources :
        Succeeded(s) => probe[1].out.count = Len(probe[1].out.items)

\* ---------------------------------------------------------------- startup claim
\* C16: startup configuration error.  validate_config returns True exactly
\* when the three Google keys are all set, whatever the optional keys; when
\* one is missing, the process can still take every step up to serving,
\* and by the time it serves an error naming exactly the missing required
\* keys is in the log.
C16_StartupConfigError ==
    LET missing == {k \in {"GOOGLE_CLIENT_ID", "GOOGLE_CLIENT_SECRET",
                            "GOOGLE_REFRESH_TOKEN"} : ~ConfigValue(k)}
    IN  /\ valid # <<>> => (valid[1] <=> missing = {})
        /\ main_pc # "serving" => ENABLED NextStartup
        /\ (main_pc \in {"run", "serving"} /\ missing # {}) =>
              /\ valid = <<FALSE>>
              /\ \E i \in 1..Len(log) :
                    /\ log[i].level = "error"
                    /\ {log[i].keys[j] : j \in 1..Len(log[i].keys)} = missing

\* C16 witness: the server serves with two required keys missing and all
\* optional keys set, after logging the error that names those two.
C16_Witness ==
    /\ main_pc = "serving"
    /\ ~GOOGLE_CLIENT_ID /\ GOOGLE_CLIENT_SECRET /\ ~GOOGLE_REFRESH_TOKEN
    /\ NEWSLETTER_FOLDER_ID /\ GITHUB_TOKEN /\ PRODUCT_HUNT_API_KEY /\ TWITTER_BEARER_TOKEN
    /\ valid = <<FALSE>>
    /\ log[2] = Line("error", "Missing REQUIRED configuration",
                      <<"GOOGLE_CLIENT_ID", "GOOGLE_REFRESH_TOKEN">>)

\* ---------------------------------------------------------------- limiter claims
\* C18: spacing under concurrent callers.  Whatever the interleaving of
\* the callers' steps, every admission on the limiter comes at least 60/C
\* seconds after the admission before it.
C18_ConcurrentSpacing == spacing.gap * Budget(calling) >= 60

\* C18, as the wrapper keeps it: every admission comes at least 60/C
\* seconds after the admission whose timestamp the admitted caller read
\* on entry (another caller may have been admitted in between).
C18_SpacingFromObserved == spacing.since_seen * Budget(calling) >= 60

\* C18 witness: a caller that slept out the deficit it computed was
\* admitted in the same second as another caller.
C18_Witness ==
    /\ used
    /\ spacing.gap = 0
    /\ spacing.since_seen * Budget(calling) >= 60
    /\ \E t \in Threads : callers[t].pc = "func" /\ callers[t].slept

\* C20: delay amount.  A caller that read elapsed computes the deficit
\* 60/C - elapsed; it sleeps exactly when the deficit is positive, its
\* sleep ends when the deficit has passed and not before, and a caller
\* that found last_called never written does not sleep.
C20_DelayAmount ==
    \A t \in Threads :
        LET c == callers[t]
            deficit == 60 \div Budget(calling) - c.seen
        IN  c.pc # "idle" =>
                /\ c.wait_time = deficit
                /\ c.slept <=> deficit > 0
                /\ c.pc = "sleep" => c.slept
                /\ c.pc = "sleep" =>
                      c.remaining = deficit - (c.since_seen - c.seen)
                /\ (c.pc = "write" /\ ~c.slept) => c.since_seen = c.seen
                /\ c.first => ~c.slept

\* C20 witness: a caller of fetch_twitter_trends read elapsed = 1, computed
\* a deficit of 3 seconds and is 2 seconds into its sleep, 1 second left.
C20_Witness ==
    /\ calling = "tweets"
    /\ \E t \in Threads :
          /\ callers[t].pc = "sleep"
          /\ callers[t].seen = 1
          /\ callers[t].wait_time = 3
          /\ callers[t].remaining = 1
          /\ ~callers[t].first

\* ---------------------------------------------------------------- order claim
\* The entries of an errors list, as a set.
EntrySet(errs) == {errs[i] : i \in 1..Len(errs)}

\* C21: order independence.  With the answer of every source fixed, the
\* dict returned when the blocks run as tasks in any order or interleaving
\* has the status, the research_data mapping, the sources_fetched and the
\* set of errors entries of the dict returned when they run in the order
\* of the code.
C21_OrderIndependence ==
    (agg_pc = "done" /\ ret # <<>>) =>
        LET r == ret[1]
            c == InCodeOrder(1, answers, EmptyDict, <<>>, config)
        IN  /\ r.status = c.status
            /\ r.research_data = c.research_data
            /\ r.sources_fetched = c.sources_fetched
            /\ EntrySet(r.errors) = EntrySet(c.errors)
            /\ Len(r.errors) = Len(c.errors)

\* C21 witness: all four sources enabled, tweets and papers failed and were
\* recorded in that order, the reverse of the code's, and the other two
\* were fetched.
C21_Witness ==
    /\ agg_pc = "done"
    /\ ret # <<>>
    /\ \A s \in Sources : tasks[s] = "recorded"
    /\ PRODUCT_HUNT_API_KEY /\ TWITTER_BEARER_TOKEN
    /\ Len(ret[1].errors) = 2
    /\ ret[1].errors[1].source = "Tweets"
    /\ ret[1].errors[2].source = "Papers"
    /\ DOMAIN ret[1].research_data = {"repositories", "products"}
    /\ ret[1].status = "partial"
====
